---- MODULE Spec2Model ----
(***************************************************************************)
(* A model of the MSSQL MCP server (src/server.py): the shared engine and  *)
(* get_db_connection, the SELECT-only guard and result materialisation of *)
(* query_sql, and the catalog tools get_table_structure, list_tables and  *)
(* get_database_info.                                                      *)
(*                                                                         *)
(* A tool call is one action: it takes the request and everything the      *)
(* database driver does during the call (which calls raise, what the      *)
(* cursors hold) as inputs, and leaves the returned value in result.      *)
(* Deliver hands the value to the client and makes room for the next      *)
(* call.  The steps of get_db_connection are also given one by one, for   *)
(* tool invocations that run on several threads at once.                  *)
(***************************************************************************)
EXTENDS Integers, Sequences, FiniteSets, TLC

VARIABLES
    engine,       \* the module-level engine: None (0) or the id of a handle
    made,         \* number of handles create_engine has returned so far
    probed,       \* ids of the handles whose SELECT 1 probe succeeded
    rowFaults,    \* may the driver raise inside a row-conversion loop, outside a cell read
    call,         \* the tool call being answered
    env,          \* what the driver did during that call
    result,       \* the value the tool returned
    log,          \* what the call did: acquisitions, statements sent, connections
    prev,         \* an earlier list_tables answer the client has kept
    pc,           \* per thread: position inside get_db_connection
    got           \* per thread: the handle get_db_connection returned (0: none yet)

vars == <<engine, made, probed, rowFaults, prev, call, env, result, log, pc, got>>

----------------------------------------------------------------------------
(* Bounds *)

MaxSqlLen == 3      \* tokens in a SQL text
MaxRows == 2        \* rows in a cursor
NumThreads == 2     \* concurrent tool invocations

----------------------------------------------------------------------------
(* Small helpers *)

None == 0

Min(S) == CHOOSE m \in S : \A n \in S : m <= n
Max(S) == CHOOSE m \in S : \A n \in S : m >= n

Range(s) == {s[i] : i \in DOMAIN s}

SeqsUpTo(S, n) == UNION {[1..k -> S] : k \in 0..n}

NoCall == [tool |-> "none"]
NoEnv == [conn |-> "none"]
NoResult == [kind |-> "none"]
NoPrev == [schema |-> "none"]
NoLog == [acquire |-> 0, executed |-> <<>>, opened |-> 0, closed |-> 0]

----------------------------------------------------------------------------
(* Values a cell of a result row can hold.  PyNone is Python's None, which *)
(* is also what the driver returns for SQL NULL; Bad is a cell whose read  *)
(* (row[i]) raises.                                                        *)

IntVal(n) == [k |-> "int", n |-> n, s |-> ""]
StrVal(s) == [k |-> "str", n |-> 0, s |-> s]
BoolVal(b) == [k |-> "bool", n |-> IF b THEN 1 ELSE 0, s |-> ""]
PyNone == [k |-> "none", n |-> 0, s |-> ""]
Bad == [k |-> "bad", n |-> 0, s |-> ""]

----------------------------------------------------------------------------
(* SQL text.  A text is a sequence of tokens: a token is one whitespace    *)
(* character or a maximal run of other characters.                         *)

Whitespace == {" ", "\t", "\n"}
Words == {"select", "SELECT", "DROP", "x"}
Alphabet == Words \cup Whitespace
Texts == SeqsUpTo(Alphabet, MaxSqlLen)

\* str.lower on one token
LowerTok(t) ==
    CASE t = "SELECT" -> "select"
      [] t = "DROP" -> "drop"
      [] OTHER -> t

\* sql.lower()
lower(sql) == [i \in DOMAIN sql |-> LowerTok(sql[i])]

\* sql.strip(): drop leading and trailing whitespace
strip(sql) ==
    LET keep == {i \in DOMAIN sql : sql[i] \notin Whitespace}
    IN  IF keep = {} THEN <<>> ELSE SubSeq(sql, Min(keep), Max(keep))

\* "select" in sql_lower, in place of startswith
select_anywhere(s) == "select" \in Range(s)

\* sql_lower.startswith("select")
startswith_select(s) == Len(s) > 0 /\ s[1] = "select"

dangerous_keywords ==
    <<"insert", "update", "delete", "drop", "alter", "create", "truncate", "exec", "execute">>

\* f" {keyword} " in f" {sql_lower} "
contains_keyword(s, keyword) ==
    LET padded == <<" ">> \o s \o <<" ">>
    IN  \E i \in 1..(Len(padded) - 2) :
            /\ padded[i] = " "
            /\ padded[i + 1] = keyword
            /\ padded[i + 2] = " "

NotSelectMsg == "only SELECT statements are allowed"
ForbiddenMsg(keyword) == "query contains forbidden keyword '" \o keyword \o "'"

\* the deny-list scan placed before the select test
guard_keywords_first(sql) ==
    LET sql_lower == strip(lower(sql))
        hits == {i \in DOMAIN dangerous_keywords :
                     contains_keyword(sql_lower, dangerous_keywords[i])}
    IN  IF hits # {} THEN ForbiddenMsg(dangerous_keywords[Min(hits)])
        ELSE IF ~startswith_select(sql_lower) THEN NotSelectMsg
        ELSE ""

\* The guard of query_sql: "" when the text may run, else the error message.
guard(sql) ==
    LET sql_lower == strip(lower(sql))
        hits == {i \in DOMAIN dangerous_keywords :
                     contains_keyword(sql_lower, dangerous_keywords[i])}
    IN  IF ~startswith_select(sql_lower) THEN NotSelectMsg
        ELSE IF hits # {} THEN ForbiddenMsg(dangerous_keywords[Min(hits)])
        ELSE ""

----------------------------------------------------------------------------
(* get_db_connection, run without interruption.  conn says where the      *)
(* driver raises if a handle has to be built: in create_engine or in the  *)
(* probe, with a SQLAlchemyError (wrapped in a new message) or with       *)
(* another exception (passed on as it is).  The probe fails when its      *)
(* engine.connect() raises or when its SELECT 1 raises.                   *)

ConnFaults == {"none", "create_sa", "create_other", "probe_connect", "probe_execute"}

ConnectFailedMsg(m) == "database connection failed: " \o m

\* the probe repeated on every call, also when the handle is already there
get_db_connection_reprobe(e, m, p, conn) ==
    IF e # None
    THEN [engine |-> e, made |-> m, probed |-> p \cup {e}, raised |-> FALSE, msg |-> "",
          executed |-> <<"SELECT 1">>]
    ELSE CASE conn \in {"create_sa", "create_other"} ->
                [engine |-> None, made |-> m, probed |-> p, raised |-> TRUE,
                 msg |-> ConnectFailedMsg("bad url"), executed |-> <<>>]
           [] conn \in {"probe_connect", "probe_execute"} ->
                [engine |-> m + 1, made |-> m + 1, probed |-> p, raised |-> TRUE,
                 msg |-> ConnectFailedMsg("login timeout"), executed |-> <<>>]
           [] OTHER ->
                [engine |-> m + 1, made |-> m + 1, probed |-> p \cup {m + 1},
                 raised |-> FALSE, msg |-> "", executed |-> <<"SELECT 1">>]

get_db_connection(e, m, p, conn) ==
    IF e # None
    THEN [engine |-> e, made |-> m, probed |-> p, raised |-> FALSE, msg |-> "",
          executed |-> <<>>]
    ELSE CASE conn = "create_sa" ->
                [engine |-> None, made |-> m, probed |-> p, raised |-> TRUE,
                 msg |-> ConnectFailedMsg("bad url"), executed |-> <<>>]
           [] conn = "create_other" ->
                [engine |-> None, made |-> m, probed |-> p, raised |-> TRUE,
                 msg |-> "no driver module", executed |-> <<>>]
           [] conn = "probe_connect" ->
                [engine |-> m + 1, made |-> m + 1, probed |-> p, raised |-> TRUE,
                 msg |-> ConnectFailedMsg("login timeout"), executed |-> <<>>]
           [] conn = "probe_execute" ->
                [engine |-> m + 1, made |-> m + 1, probed |-> p, raised |-> TRUE,
                 msg |-> ConnectFailedMsg("probe failed"), executed |-> <<"SELECT 1">>]
           [] OTHER ->
                [engine |-> m + 1, made |-> m + 1, probed |-> p \cup {m + 1},
                 raised |-> FALSE, msg |-> "", executed |-> <<"SELECT 1">>]

\* Connections the probe checked out (and released when its with block ended)
probe_checkouts(conn_result) == Len(conn_result.executed)

----------------------------------------------------------------------------
(* Cursors.  A row is its cells plus the fault the driver injects while   *)
(* the row is converted: "none", or "recovery" when the second, per-cell  *)
(* conversion of query_sql (or the conversion loop of a catalog tool)     *)
(* raises outside the guarded cell read.                                  *)

CellValues == {IntVal(1), Bad}
ColumnLists == {<<"a">>, <<"a", "b">>}

has_bad_cell(cells) == \E i \in DOMAIN cells : cells[i] = Bad

Rows(n, rf) ==
    {[cells |-> c, fault |-> f] :
        c \in [1..n -> CellValues], f \in (IF rf THEN {"none", "recovery"} ELSE {"none"})}

\* a row fault only shows on the paths that run after a cell read raised
CanonicalRow(r) == r.fault = "none" \/ has_bad_cell(r.cells)

Cursors(rf) ==
    UNION {{[columns |-> cols, rows |-> rs, iter_raises |-> ir] :
                rs \in SeqsUpTo({r \in Rows(Len(cols), rf) : CanonicalRow(r)}, MaxRows),
                ir \in BOOLEAN} :
           cols \in ColumnLists}

NoCursor == [columns |-> <<>>, rows |-> <<>>, iter_raises |-> FALSE]

----------------------------------------------------------------------------
(* query_sql: materialisation of the cursor (server.py 116-140)           *)

\* {col: row[i] for i, col in enumerate(columns)}: a later duplicate name wins
dict_of(columns, cells) ==
    [c \in Range(columns) |-> cells[Max({i \in DOMAIN columns : columns[i] = c})]]

\* row_dict[col] = row[i], or None when the read raises
cell_or_none(cell) == IF cell = Bad THEN PyNone ELSE cell

\* str() of one cell inside str(row)
CellText(cell) ==
    CASE cell.k = "int" -> (IF cell.n = 1 THEN "1" ELSE "0")
      [] cell.k = "none" -> "None"
      [] OTHER -> "?"

RECURSIVE CellsText(_)
CellsText(cells) ==
    IF cells = <<>> THEN ""
    ELSE CellText(Head(cells)) \o ", " \o CellsText(Tail(cells))

\* str(row)
row_text(row) == StrVal("(" \o CellsText(row.cells) \o ")")

\* a cell read that raises blanks the whole row
row_dict_all_none(columns, row) ==
    IF ~has_bad_cell(row.cells)
    THEN dict_of(columns, row.cells)
    ELSE IF row.fault = "none"
    THEN [c \in Range(columns) |-> PyNone]
    ELSE [value |-> row_text(row)]

\* a cell read that raises leaves its key out of the mapping
row_dict_skip_bad(columns, row) ==
    IF ~has_bad_cell(row.cells)
    THEN dict_of(columns, row.cells)
    ELSE IF row.fault = "none"
    THEN [c \in {columns[i] : i \in {j \in DOMAIN columns : row.cells[j] # Bad}} |->
              row.cells[Max({i \in DOMAIN columns : columns[i] = c})]]
    ELSE [value |-> row_text(row)]

\* the mapping appended for one row
row_dict_of(columns, row) ==
    IF ~has_bad_cell(row.cells)
    THEN dict_of(columns, row.cells)
    ELSE IF row.fault = "none"
    THEN dict_of(columns, [i \in DOMAIN row.cells |-> cell_or_none(row.cells[i])])
    ELSE [value |-> row_text(row)]

\* result_rows after the for loop
materialize(cursor) ==
    [i \in DOMAIN cursor.rows |-> row_dict_of(cursor.columns, cursor.rows[i])]

----------------------------------------------------------------------------
(* query_sql (server.py 74-154)                                           *)

QueryEnvs(rf) ==
    {[conn |-> c, connect_raises |-> FALSE, execute_raises |-> FALSE, cursor |-> NoCursor] :
        c \in ConnFaults}
    \cup {[conn |-> "none", connect_raises |-> TRUE, execute_raises |-> FALSE,
           cursor |-> NoCursor]}
    \cup {[conn |-> "none", connect_raises |-> FALSE, execute_raises |-> TRUE,
           cursor |-> NoCursor]}
    \cup {[conn |-> "none", connect_raises |-> FALSE, execute_raises |-> FALSE,
           cursor |-> c] : c \in Cursors(rf)}

query_error(msg, sql) == [error |-> msg, sql |-> sql]

\* row_count taken from the wrong list
query_success_len_columns(columns, result_rows) ==
    [columns |-> columns, rows |-> result_rows, row_count |-> Len(columns)]

query_success(columns, result_rows) ==
    [columns |-> columns, rows |-> result_rows, row_count |-> Len(result_rows)]

\* The whole call: the returned value, the engine state and the log after it.
query_sql(sql, e, eng, m, p) ==
    LET g == guard(sql)
        c == get_db_connection(eng, m, p, e.conn)
        after(res, lg) ==
            [result |-> res, engine |-> c.engine, made |-> c.made, probed |-> c.probed,
             log |-> lg]
        probes == probe_checkouts(c)
    IN  IF g # ""
        THEN [result |-> query_error(g, sql), engine |-> eng, made |-> m, probed |-> p,
              log |-> NoLog]
        ELSE IF c.raised
        THEN after(query_error(c.msg, sql),
                   [acquire |-> 1, executed |-> c.executed,
                    opened |-> probes, closed |-> probes])
        ELSE IF e.connect_raises
        THEN after(query_error("cannot open connection", sql),
                   [acquire |-> 1, executed |-> c.executed,
                    opened |-> probes, closed |-> probes])
        ELSE IF e.execute_raises
        THEN after(query_error("statement failed", sql),
                   [acquire |-> 1, executed |-> c.executed \o <<"sql">>,
                    opened |-> probes + 1, closed |-> probes + 1])
        ELSE IF e.cursor.iter_raises
        THEN after(query_error("fetch failed", sql),
                   [acquire |-> 1, executed |-> c.executed \o <<"sql">>,
                    opened |-> probes + 1, closed |-> probes + 1])
        ELSE after(query_success(e.cursor.columns, materialize(e.cursor)),
                   [acquire |-> 1, executed |-> c.executed \o <<"sql">>,
                    opened |-> probes + 1, closed |-> probes + 1])

----------------------------------------------------------------------------
(* The catalog of the database the server talks to: schema dbo holds the  *)
(* tables Customers and Orders, schema ops holds none.                    *)

TableArgs == {"Orders", "Ghost"}
SchemaArgs == {"dbo", "ops"}

\* rows of columns_sql: name, type, max_length, precision, scale, is_nullable, description
rich_columns_rows(table, schema) ==
    IF table = "Orders" /\ schema = "dbo"
    THEN << <<StrVal("id"), StrVal("int"), IntVal(4), IntVal(10), IntVal(0),
              BoolVal(FALSE), StrVal("order key")>>,
            <<StrVal("note"), StrVal("nvarchar"), IntVal(80), IntVal(0), IntVal(0),
              BoolVal(TRUE), StrVal("")>> >>
    ELSE <<>>

columns_sql(table, schema) ==
    [columns |-> <<"column_name", "data_type", "max_length", "precision", "scale",
                   "is_nullable", "description">>,
     rows |-> rich_columns_rows(table, schema)]

\* the same rows without the description join
simple_columns_sql(table, schema) ==
    [columns |-> <<"column_name", "data_type", "max_length", "precision", "scale",
                   "is_nullable">>,
     rows |-> [i \in DOMAIN rich_columns_rows(table, schema) |->
                  SubSeq(rich_columns_rows(table, schema)[i], 1, 6)]]

\* the primary-key query without its table filter
pk_sql_any_table(table, schema) ==
    [columns |-> <<"column_name">>, rows |-> << <<StrVal("id")>> >>]

pk_sql(table, schema) ==
    [columns |-> <<"column_name">>,
     rows |-> IF table = "Orders" /\ schema = "dbo" THEN << <<StrVal("id")>> >> ELSE <<>>]

fk_sql(table, schema) ==
    [columns |-> <<"fk_name", "column_name", "referenced_table", "referenced_column">>,
     rows |-> IF table = "Orders" /\ schema = "dbo"
              THEN << <<StrVal("FK_Orders_Customers"), StrVal("customer_id"),
                        StrVal("Customers"), StrVal("id")>> >>
              ELSE <<>>]

index_sql(table, schema) ==
    [columns |-> <<"index_name", "index_type", "is_unique", "columns">>,
     rows |-> IF table = "Orders" /\ schema = "dbo"
              THEN << <<StrVal("IX_Orders_note"), StrVal("NONCLUSTERED"),
                        BoolVal(FALSE), StrVal("note")>> >>
              ELSE <<>>]

\* rows of list_tables' sql: table_name, description, schema_name (ORDER BY t.name)
rich_tables_rows(schema) ==
    IF schema = "dbo"
    THEN << <<StrVal("Customers"), StrVal(""), StrVal("dbo")>>,
            <<StrVal("Orders"), StrVal("order header"), StrVal("dbo")>> >>
    ELSE <<>>

tables_sql(schema) ==
    [columns |-> <<"table_name", "description", "schema_name">>,
     rows |-> rich_tables_rows(schema)]

\* the simplified query without its ORDER BY: rows in another order
simple_tables_sql_unordered(schema) ==
    LET n == Len(rich_tables_rows(schema))
    IN  [columns |-> <<"table_name", "schema_name">>,
         rows |-> [i \in 1..n |->
                      <<rich_tables_rows(schema)[n + 1 - i][1],
                        rich_tables_rows(schema)[n + 1 - i][3]>>]]

simple_tables_sql(schema) ==
    [columns |-> <<"table_name", "schema_name">>,
     rows |-> [i \in DOMAIN rich_tables_rows(schema) |->
                  <<rich_tables_rows(schema)[i][1], rich_tables_rows(schema)[i][3]>>]]

----------------------------------------------------------------------------
(* What the driver does to one catalog query: nothing, engine.connect()   *)
(* raises, conn.execute raises, fetching raises after r rows, reading     *)
(* cell c of row r raises, the conversion of row r raises outside the     *)
(* guarded reads ("row"), or that and reading its first cell raises too.  *)

Fault(kind, r, c) == [kind |-> kind, r |-> r, c |-> c]
NoFault == Fault("none", 0, 0)

Faults(q, rf) ==
    {NoFault, Fault("connect", 0, 0), Fault("execute", 0, 0)}
    \cup {Fault("fetch", r, 0) : r \in 0..Len(q.rows)}
    \cup {Fault("cell", r, c) : r \in DOMAIN q.rows, c \in DOMAIN q.columns}
    \cup (IF rf
          THEN {Fault(k, r, 0) : k \in {"row", "row_bad0"}, r \in DOMAIN q.rows}
          ELSE {})

\* the cursor the tool iterates over
cursor_of(q, f) ==
    LET n == IF f.kind = "fetch" THEN f.r ELSE Len(q.rows)
        cells(i) ==
            [j \in DOMAIN q.rows[i] |->
                IF \/ (f.kind = "cell" /\ f.r = i /\ f.c = j)
                   \/ (f.kind = "row_bad0" /\ f.r = i /\ j = 1)
                THEN Bad ELSE q.rows[i][j]]
    IN  [columns |-> q.columns,
         rows |-> [i \in 1..n |->
                     [cells |-> cells(i),
                      fault |-> IF f.kind \in {"row", "row_bad0"} /\ f.r = i
                                THEN "recovery" ELSE "none"]],
         iter_raises |-> f.kind = "fetch"]

----------------------------------------------------------------------------
(* Conversion of catalog rows to text (server.py 232-254 and its copies)  *)

Digit(d) ==
    CASE d = 0 -> "0" [] d = 1 -> "1" [] d = 2 -> "2" [] d = 3 -> "3" [] d = 4 -> "4"
      [] d = 5 -> "5" [] d = 6 -> "6" [] d = 7 -> "7" [] d = 8 -> "8" [] OTHER -> "9"

RECURSIVE IntText(_)
IntText(n) == IF n < 10 THEN Digit(n) ELSE IntText(n \div 10) \o Digit(n % 10)

\* Python's str(value)
str(v) ==
    CASE v.k = "int" -> IntText(v.n)
      [] v.k = "bool" -> (IF v.n = 1 THEN "True" ELSE "False")
      [] v.k = "str" -> v.s
      [] OTHER -> "None"

\* row_dict[col] = str(value) if value is not None else "", "" when the read raises
cell_str(cell) == IF cell = Bad \/ cell = PyNone THEN "" ELSE str(cell)

convert_row(col_names, row) ==
    dict_of(col_names, [i \in DOMAIN row.cells |-> cell_str(row.cells[i])])

\* the simplified tier forgets the description
no_description(row_dict) == row_dict

\* if "description" not in row_dict: row_dict["description"] = ""
add_description(row_dict) ==
    IF "description" \in DOMAIN row_dict THEN row_dict
    ELSE [k \in DOMAIN row_dict \cup {"description"} |->
              IF k \in DOMAIN row_dict THEN row_dict[k] ELSE ""]

\* {key: str(row[0]) if row and len(row) > 0 else "unknown"}
fallback_row(key, row) ==
    [k \in {key} |-> IF Len(row.cells) > 0 THEN str(row.cells[1]) ELSE "unknown"]

\* One for loop over a cursor.  describe: the tier adds the description;
\* guarded: the row-level handler has its own try/except (252-254).
convert_cursor(cursor, key, describe, guarded) ==
    LET fallback_raises(row) ==
            row.fault # "none" /\ Len(row.cells) > 0 /\ row.cells[1] = Bad /\ ~guarded
        one(row) ==
            IF row.fault = "none"
            THEN (IF describe THEN add_description(convert_row(cursor.columns, row))
                  ELSE convert_row(cursor.columns, row))
            ELSE IF Len(row.cells) > 0 /\ row.cells[1] = Bad
            THEN [k \in {key} |-> "unknown"]
            ELSE fallback_row(key, row)
    IN  IF \E i \in DOMAIN cursor.rows : fallback_raises(cursor.rows[i])
        THEN [raised |-> TRUE, msg |-> "cell read failed", rows |-> <<>>]
        ELSE IF cursor.iter_raises
        THEN [raised |-> TRUE, msg |-> "fetch failed", rows |-> <<>>]
        ELSE [raised |-> FALSE, msg |-> "",
              rows |-> [i \in DOMAIN cursor.rows |-> one(cursor.rows[i])]]

\* with engine.connect() as conn: execute, convert
run_query(q, f, key, describe, guarded) ==
    IF f.kind = "connect"
    THEN [raised |-> TRUE, msg |-> "cannot open connection", rows |-> <<>>]
    ELSE IF f.kind = "execute"
    THEN [raised |-> TRUE, msg |-> "statement failed", rows |-> <<>>]
    ELSE convert_cursor(cursor_of(q, f), key, describe, guarded)

\* the primary-key, foreign-key and index queries: one with block, no second tier
single_tier_query(q, f, key) == run_query(q, f, key, FALSE, FALSE)

\* the connection is closed only when the block ends without raising
logged_leak(lg, name, f) ==
    IF f.kind = "connect" THEN lg
    ELSE [lg EXCEPT !.executed = Append(@, name), !.opened = @ + 1,
                    !.closed = IF f.kind \in {"execute", "fetch"} THEN @ ELSE @ + 1]

\* the log after one with block
logged(lg, name, f) ==
    IF f.kind = "connect" THEN lg
    ELSE [lg EXCEPT !.executed = Append(@, name), !.opened = @ + 1, !.closed = @ + 1]

----------------------------------------------------------------------------
(* get_table_structure (server.py 157-416)                                *)

\* the error value without the table and schema it was asked for
structure_error_bare(msg, table_name, schema) == [error |-> msg]

structure_error(msg, table_name, schema) ==
    [error |-> msg, table |-> table_name, schema |-> schema]

\* the simplified tier appends to the list the rich tier had begun
columns_stage_keep_partial(table_name, schema, e) ==
    LET q == columns_sql(table_name, schema)
        rich == run_query(q, e.rich, "column_name", FALSE, TRUE)
        partial == IF e.rich.kind = "fetch"
                   THEN convert_cursor([cursor_of(q, e.rich) EXCEPT !.iter_raises = FALSE],
                                       "column_name", FALSE, TRUE).rows
                   ELSE <<>>
        simple == run_query(simple_columns_sql(table_name, schema), e.simple,
                            "column_name", TRUE, FALSE)
    IN  IF ~rich.raised THEN rich
        ELSE IF simple.raised THEN simple
        ELSE [simple EXCEPT !.rows = partial \o @]

\* the columns stage: the rich query, and the simplified one if that raised
columns_stage(table_name, schema, e) ==
    LET rich == run_query(columns_sql(table_name, schema), e.rich, "column_name", FALSE, TRUE)
        simple == run_query(simple_columns_sql(table_name, schema), e.simple,
                            "column_name", TRUE, FALSE)
    IN  IF ~rich.raised THEN rich ELSE simple

columns_log(lg, e, rich_raised) ==
    IF rich_raised
    THEN logged(logged(lg, "columns_sql", e.rich), "simple_columns_sql", e.simple)
    ELSE logged(lg, "columns_sql", e.rich)

rich_raised(table_name, schema, e) ==
    run_query(columns_sql(table_name, schema), e.rich, "column_name", FALSE, TRUE).raised

get_table_structure(table_name, schema, e, eng, m, p) ==
    LET c == get_db_connection(eng, m, p, e.conn)
        probes == probe_checkouts(c)
        lg0 == [acquire |-> 1, executed |-> c.executed, opened |-> probes, closed |-> probes]
        after(res, lg) ==
            [result |-> res, engine |-> c.engine, made |-> c.made, probed |-> c.probed,
             log |-> lg]
        columns == columns_stage(table_name, schema, e)
        lg1 == columns_log(lg0, e, rich_raised(table_name, schema, e))
        primary_keys == single_tier_query(pk_sql(table_name, schema), e.pk, "column_name")
        lg2 == logged(lg1, "pk_sql", e.pk)
        foreign_keys == single_tier_query(fk_sql(table_name, schema), e.fk, "fk_name")
        lg3 == logged(lg2, "fk_sql", e.fk)
        indexes == single_tier_query(index_sql(table_name, schema), e.idx, "index_name")
        lg4 == logged(lg3, "index_sql", e.idx)
    IN  IF c.raised THEN after(structure_error(c.msg, table_name, schema), lg0)
        ELSE IF columns.raised
        THEN after(structure_error(columns.msg, table_name, schema), lg1)
        ELSE IF primary_keys.raised
        THEN after(structure_error(primary_keys.msg, table_name, schema), lg2)
        ELSE IF foreign_keys.raised
        THEN after(structure_error(foreign_keys.msg, table_name, schema), lg3)
        ELSE IF indexes.raised
        THEN after(structure_error(indexes.msg, table_name, schema), lg4)
        ELSE after([columns |-> columns.rows, primary_keys |-> primary_keys.rows,
                    foreign_keys |-> foreign_keys.rows, indexes |-> indexes.rows], lg4)

\* What the driver can do during one get_table_structure call: a fault for
\* each query the call gets to.
StructureEnvs(table_name, schema, eng, rf) ==
    LET blank == [conn |-> "none", rich |-> NoFault, simple |-> NoFault, pk |-> NoFault,
                  fk |-> NoFault, idx |-> NoFault]
        failed(e) == "error" \in DOMAIN get_table_structure(table_name, schema, e, eng, 0, {}).result
        S0 == {[blank EXCEPT !.conn = c] : c \in (IF eng = None THEN ConnFaults ELSE {"none"})}
        S1 == UNION {IF failed(e) THEN {e}
                     ELSE {[e EXCEPT !.rich = f] :
                              f \in Faults(columns_sql(table_name, schema), rf)} : e \in S0}
        S2 == UNION {IF failed(e) \/ ~rich_raised(table_name, schema, e) THEN {e}
                     ELSE {[e EXCEPT !.simple = f] :
                              f \in Faults(simple_columns_sql(table_name, schema), rf)} :
                     e \in S1}
        S3 == UNION {IF failed(e) THEN {e}
                     ELSE {[e EXCEPT !.pk = f] :
                              f \in Faults(pk_sql(table_name, schema), rf)} : e \in S2}
        S4 == UNION {IF failed(e) THEN {e}
                     ELSE {[e EXCEPT !.fk = f] :
                              f \in Faults(fk_sql(table_name, schema), rf)} : e \in S3}
    IN  UNION {IF failed(e) THEN {e}
               ELSE {[e EXCEPT !.idx = f] :
                        f \in Faults(index_sql(table_name, schema), rf)} : e \in S4}

----------------------------------------------------------------------------
(* list_tables (server.py 419-527)                                        *)

\* the error value without the schema it was asked for
tables_error_bare(msg, schema) == [error |-> msg]

tables_error(msg, schema) == [error |-> msg, schema |-> schema]

tables_rich(schema, e) == run_query(tables_sql(schema), e.rich, "table_name", FALSE, FALSE)

tables_simple(schema, e) ==
    run_query(simple_tables_sql(schema), e.simple, "table_name", TRUE, FALSE)

list_tables(schema, e, eng, m, p) ==
    LET c == get_db_connection(eng, m, p, e.conn)
        probes == probe_checkouts(c)
        lg0 == [acquire |-> 1, executed |-> c.executed, opened |-> probes, closed |-> probes]
        after(res, lg) ==
            [result |-> res, engine |-> c.engine, made |-> c.made, probed |-> c.probed,
             log |-> lg]
        rich == tables_rich(schema, e)
        simple == tables_simple(schema, e)
        tables == IF ~rich.raised THEN rich ELSE simple
        lg1 == IF rich.raised
               THEN logged(logged(lg0, "sql", e.rich), "simple_sql", e.simple)
               ELSE logged(lg0, "sql", e.rich)
    IN  IF c.raised THEN after(tables_error(c.msg, schema), lg0)
        ELSE IF tables.raised THEN after(tables_error(tables.msg, schema), lg1)
        ELSE after([tables |-> tables.rows, count |-> Len(tables.rows)], lg1)

TablesEnvs(schema, eng, rf) ==
    LET blank == [conn |-> "none", rich |-> NoFault, simple |-> NoFault]
        S0 == {[blank EXCEPT !.conn = c] : c \in (IF eng = None THEN ConnFaults ELSE {"none"})}
        S1 == UNION {IF get_db_connection(eng, 0, {}, e.conn).raised THEN {e}
                     ELSE {[e EXCEPT !.rich = f] : f \in Faults(tables_sql(schema), rf)} :
                     e \in S0}
    IN  UNION {IF get_db_connection(eng, 0, {}, e.conn).raised \/ ~tables_rich(schema, e).raised
               THEN {e}
               ELSE {[e EXCEPT !.simple = f] : f \in Faults(simple_tables_sql(schema), rf)} :
               e \in S1}

----------------------------------------------------------------------------
(* get_database_info (server.py 530-577)                                  *)

DB_HOST == "db.local"
DB_PORT == "1433"
DB_NAME == "shop"
DB_USER == "reader"

InfoFaults == {"none", "connect", "version_sql", "db_name_sql", "schema_sql", "fetch"}

info_statements(fault) ==
    CASE fault = "connect" -> <<>>
      [] fault = "version_sql" -> <<"version_sql">>
      [] fault = "db_name_sql" -> <<"version_sql", "db_name_sql">>
      [] OTHER -> <<"version_sql", "db_name_sql", "schema_sql">>

get_database_info(e, eng, m, p) ==
    LET c == get_db_connection(eng, m, p, e.conn)
        probes == probe_checkouts(c)
        lg0 == [acquire |-> 1, executed |-> c.executed, opened |-> probes, closed |-> probes]
        after(res, lg) ==
            [result |-> res, engine |-> c.engine, made |-> c.made, probed |-> c.probed,
             log |-> lg]
        opens == IF e.info = "connect" THEN 0 ELSE 1
        lg1 == [lg0 EXCEPT !.executed = @ \o info_statements(e.info),
                           !.opened = @ + opens, !.closed = @ + opens]
    IN  IF c.raised THEN after([error |-> c.msg], lg0)
        ELSE IF e.info = "connect" THEN after([error |-> "cannot open connection"], lg1)
        ELSE IF e.info = "fetch" THEN after([error |-> "fetch failed"], lg1)
        ELSE IF e.info # "none" THEN after([error |-> "statement failed"], lg1)
        ELSE after([database_name |-> StrVal(DB_NAME),
                    version |-> StrVal("Microsoft SQL Server 2016"),
                    schemas |-> <<StrVal("dbo"), StrVal("ops")>>,
                    connection |-> [host |-> DB_HOST, port |-> DB_PORT,
                                    database |-> DB_NAME, user |-> DB_USER]], lg1)

InfoEnvs(eng) ==
    {[conn |-> c, info |-> "none"] : c \in (IF eng = None THEN ConnFaults ELSE {"none"})}
    \cup {[conn |-> "none", info |-> f] : f \in InfoFaults}

----------------------------------------------------------------------------
(* The tool calls, one action each *)

Idle == result = NoResult

Answer(c, e, out) ==
    /\ call' = c
    /\ env' = e
    /\ result' = out.result
    /\ engine' = out.engine
    /\ made' = out.made
    /\ probed' = out.probed
    /\ log' = out.log
    /\ UNCHANGED <<rowFaults, prev, pc, got>>

QuerySql ==
    /\ Idle
    /\ \E sql \in Texts :
          IF guard(sql) # ""
          THEN Answer([tool |-> "query_sql", sql |-> sql], NoEnv,
                      query_sql(sql, NoEnv, engine, made, probed))
          ELSE \E e \in QueryEnvs(rowFaults) :
                  Answer([tool |-> "query_sql", sql |-> sql], e,
                         query_sql(sql, e, engine, made, probed))

GetTableStructure ==
    /\ Idle
    /\ \E table_name \in TableArgs, schema \in {"dbo"} :
          \E e \in StructureEnvs(table_name, schema, engine, rowFaults) :
              Answer([tool |-> "get_table_structure", table |-> table_name,
                      schema |-> schema], e,
                     get_table_structure(table_name, schema, e, engine, made, probed))

ListTables ==
    /\ Idle
    /\ \E schema \in SchemaArgs :
          \E e \in TablesEnvs(schema, engine, rowFaults) :
              Answer([tool |-> "list_tables", schema |-> schema], e,
                     list_tables(schema, e, engine, made, probed))

GetDatabaseInfo ==
    /\ Idle
    /\ \E e \in InfoEnvs(engine) :
          Answer([tool |-> "get_database_info"], e,
                 get_database_info(e, engine, made, probed))

\* the client takes the returned value
Deliver ==
    /\ ~Idle
    /\ call' = NoCall
    /\ env' = NoEnv
    /\ result' = NoResult
    /\ log' = NoLog
    /\ UNCHANGED <<engine, made, probed, rowFaults, prev, pc, got>>

\* the client takes a listing and keeps it to compare with a later one
Keep ==
    /\ ~Idle
    /\ call.tool = "list_tables"
    /\ "error" \notin DOMAIN result
    /\ prev' = [schema |-> call.schema, env |-> env, result |-> result]
    /\ call' = NoCall
    /\ env' = NoEnv
    /\ result' = NoResult
    /\ log' = NoLog
    /\ UNCHANGED <<engine, made, probed, rowFaults, pc, got>>

Threads == 1..NumThreads

----------------------------------------------------------------------------
(* get_db_connection step by step (server.py 35-71), for tool invocations *)
(* running on several threads.  Nothing in the function takes a lock.     *)

\* a tool invocation calls get_db_connection()
Enter(t) ==
    /\ pc[t] = "idle"
    /\ pc' = [pc EXCEPT ![t] = "check"]
    /\ got' = [got EXCEPT ![t] = None]
    /\ UNCHANGED <<engine, made, probed, rowFaults, prev, call, env, result, log>>

\* if engine is None:
CheckEngine(t) ==
    /\ pc[t] = "check"
    /\ pc' = [pc EXCEPT ![t] = IF engine = None THEN "create" ELSE "return"]
    /\ UNCHANGED <<engine, made, probed, rowFaults, prev, call, env, result, log, got>>

\* engine = create_engine(...), or create_engine raises
CreateEngine(t) ==
    /\ pc[t] = "create"
    /\ \/ /\ engine' = made + 1
          /\ made' = made + 1
          /\ pc' = [pc EXCEPT ![t] = "probe"]
       \/ /\ pc' = [pc EXCEPT ![t] = "raised"]
          /\ UNCHANGED <<engine, made>>
    /\ UNCHANGED <<probed, rowFaults, prev, call, env, result, log, got>>

\* with engine.connect() as conn: conn.execute(text("SELECT 1")), or it raises
ProbeEngine(t) ==
    /\ pc[t] = "probe"
    /\ \/ /\ probed' = probed \cup {engine}
          /\ pc' = [pc EXCEPT ![t] = "return"]
       \/ /\ pc' = [pc EXCEPT ![t] = "raised"]
          /\ UNCHANGED probed
    /\ UNCHANGED <<engine, made, rowFaults, prev, call, env, result, log, got>>

\* return engine
ReturnEngine(t) ==
    /\ pc[t] = "return"
    /\ got' = [got EXCEPT ![t] = engine]
    /\ pc' = [pc EXCEPT ![t] = "done"]
    /\ UNCHANGED <<engine, made, probed, rowFaults, prev, call, env, result, log>>

\* the tool invocation ends, with a value or with the error of a raise
Finish(t) ==
    /\ pc[t] \in {"done", "raised"}
    /\ pc' = [pc EXCEPT ![t] = "idle"]
    /\ UNCHANGED <<engine, made, probed, rowFaults, prev, call, env, result, log, got>>


InitCommon ==
    /\ engine = None
    /\ made = 0
    /\ probed = {}
    /\ call = NoCall
    /\ env = NoEnv
    /\ result = NoResult
    /\ log = NoLog
    /\ prev = NoPrev
    /\ pc = [t \in Threads |-> "idle"]
    /\ got = [t \in Threads |-> None]

Init == InitCommon /\ rowFaults = FALSE

InitRowFaults == InitCommon /\ rowFaults = TRUE

Next == QuerySql \/ GetTableStructure \/ ListTables \/ GetDatabaseInfo \/ Deliver

Spec == Init /\ [][Next]_vars

SpecRowFaults == InitRowFaults /\ [][Next]_vars

NextThreads ==
    \E t \in Threads :
        \/ Enter(t)
        \/ CheckEngine(t)
        \/ CreateEngine(t)
        \/ ProbeEngine(t)
        \/ ReturnEngine(t)
        \/ Finish(t)

SpecThreads == Init /\ [][NextThreads]_vars

\* list_tables called again and again, the client keeping earlier answers
NextLists == ListTables \/ Keep \/ Deliver

SpecLists == Init /\ [][NextLists]_vars

----------------------------------------------------------------------------
(* Properties of the guard and of the connection provider *)

\* the first word of the text, upper or lower case, is select
BeginsWithSelect(sql) ==
    \E i \in DOMAIN sql :
        /\ sql[i] \in {"select", "SELECT"}
        /\ \A j \in 1..(i - 1) : sql[j] \in Whitespace

\* a deny-listed keyword stands between whitespace or the ends of the text
HasStandaloneKeyword(sql) ==
    \E i \in DOMAIN sql :
        /\ LowerTok(sql[i]) \in Range(dangerous_keywords)
        /\ i = 1 \/ sql[i - 1] \in Whitespace
        /\ i = Len(sql) \/ sql[i + 1] \in Whitespace

IsError(r) == "error" \in DOMAIN r

\* C1: a query_sql call whose text does not begin with select returns
\* {error, sql} with the text as it was given, sends no statement, does not
\* call get_db_connection and leaves the engine as it was.
C1_NonSelectRejected ==
    [][(Idle /\ call'.tool = "query_sql" /\ ~BeginsWithSelect(call'.sql))
         => /\ DOMAIN result' = {"error", "sql"}
            /\ result'.sql = call'.sql
            /\ log'.executed = <<>>
            /\ log'.acquire = 0
            /\ engine' = engine /\ made' = made /\ probed' = probed]_vars

C1_Witness ==
    /\ call.tool = "query_sql"
    /\ ~BeginsWithSelect(call.sql)
    /\ "select" \in Range(call.sql)
    /\ IsError(result)
    /\ result.error = NotSelectMsg
    /\ engine # None

\* C2: a query_sql call whose text begins with select and holds a deny-listed
\* keyword as a word bounded by whitespace (space, tab, newline) is rejected:
\* it returns an error without acquiring the engine or sending a statement.
C2_StandaloneKeywordRejected ==
    (call.tool = "query_sql" /\ BeginsWithSelect(call.sql) /\ HasStandaloneKeyword(call.sql))
        => (IsError(result) /\ log.acquire = 0 /\ log.executed = <<>>)

\* C3: a call whose get_db_connection raised while building the handle
\* leaves engine at None.
C3_FailedAttemptLeavesNone ==
    [][(Idle /\ ~Idle' /\ engine = None /\ log'.acquire = 1 /\ env'.conn # "none")
         => engine' = None]_vars

\* C4: whatever the interleaving of the threads, create_engine returns at
\* most one handle.
C4_AtMostOneHandle == made <= 1

----------------------------------------------------------------------------
(* Properties of get_table_structure and of the materialisation *)

\* the query's with block raises: connect, execute or fetch, or (where the
\* row-level handler is not guarded) the handler's own read of row[0]
Raises(f, guarded) ==
    \/ f.kind \in {"connect", "execute", "fetch"}
    \/ f.kind = "row_bad0" /\ ~guarded

\* a sub-query of get_table_structure failed on every tier it has
Exhausted(e) ==
    \/ Raises(e.rich, TRUE) /\ Raises(e.simple, FALSE)
    \/ Raises(e.pk, FALSE)
    \/ Raises(e.fk, FALSE)
    \/ Raises(e.idx, FALSE)

IsStructureCall == call.tool = "get_table_structure"

\* C5 as claimed: a sub-query that fails on every tier leaves the call
\* returning a descriptor (its own list empty), not an error.
C5_ExhaustedListEmpty ==
    (IsStructureCall /\ Exhausted(env))
        => /\ DOMAIN result = {"columns", "primary_keys", "foreign_keys", "indexes"}
           /\ Raises(env.rich, TRUE) /\ Raises(env.simple, FALSE) => result.columns = <<>>
           /\ Raises(env.pk, FALSE) => result.primary_keys = <<>>
           /\ Raises(env.fk, FALSE) => result.foreign_keys = <<>>
           /\ Raises(env.idx, FALSE) => result.indexes = <<>>

\* C5 amended: a sub-query that fails on every tier it has makes the call
\* return the error value {error, table, schema}; no list is returned.
C5_ExhaustedReturnsError ==
    (IsStructureCall /\ Exhausted(env))
        => /\ DOMAIN result = {"error", "table", "schema"}
           /\ result.table = call.table
           /\ result.schema = call.schema

C5_Witness ==
    /\ IsStructureCall
    /\ call.table = "Orders"
    /\ env.rich = NoFault
    /\ env.pk.kind = "execute"
    /\ IsError(result)
    /\ log.executed = <<"columns_sql", "pk_sql">>

IsQuerySuccess == call.tool = "query_sql" /\ ~IsError(result)

\* C6: in every value query_sql returns without an error, row_count is the
\* number of entries of rows, whatever cells or rows failed to convert.
C6_RowCountIsLenRows ==
    IsQuerySuccess => result.row_count = Len(result.rows)

C6_Witness ==
    /\ IsQuerySuccess
    /\ Len(env.cursor.rows) = 2
    /\ Len(env.cursor.columns) = 1
    /\ env.cursor.rows[1].fault = "recovery"
    /\ has_bad_cell(env.cursor.rows[2].cells)
    /\ result.row_count = 2

\* C7: every row of the cursor is appended, in order; a cell whose read
\* raised holds None and every other cell holds the value read.
C7_BadCellBecomesNone ==
    IsQuerySuccess
        => /\ Len(result.rows) = Len(env.cursor.rows)
           /\ \A i \in DOMAIN env.cursor.rows :
                 /\ DOMAIN result.rows[i] = Range(env.cursor.columns)
                 /\ \A j \in DOMAIN env.cursor.columns :
                       result.rows[i][env.cursor.columns[j]] =
                           IF env.cursor.rows[i].cells[j] = Bad THEN PyNone
                           ELSE env.cursor.rows[i].cells[j]

C7_Witness ==
    /\ IsQuerySuccess
    /\ env.cursor.columns = <<"a", "b">>
    /\ Len(env.cursor.rows) = 2
    /\ env.cursor.rows[2].cells = <<Bad, IntVal(1)>>
    /\ result.rows[2] = [a |-> PyNone, b |-> IntVal(1)]

\* C8 as claimed: every row mapping has exactly the keys listed in columns.
C8_RowKeysAreColumns ==
    IsQuerySuccess
        => \A i \in DOMAIN result.rows : DOMAIN result.rows[i] = Range(result.columns)

\* C8 amended: a row has exactly the keys listed in columns when it is
\* converted directly or by the per-cell recovery; a row that falls to the
\* last resort is the one-key mapping {value}.
C8_RowKeysAreColumnsOrValue ==
    IsQuerySuccess
        => \A i \in DOMAIN result.rows :
              IF has_bad_cell(env.cursor.rows[i].cells) /\ env.cursor.rows[i].fault = "recovery"
              THEN DOMAIN result.rows[i] = {"value"}
              ELSE DOMAIN result.rows[i] = Range(result.columns)

C8_Witness ==
    /\ IsQuerySuccess
    /\ result.columns = <<"a", "b">>
    /\ Len(result.rows) = 2
    /\ DOMAIN result.rows[1] = {"value"}
    /\ has_bad_cell(env.cursor.rows[2].cells)
    /\ DOMAIN result.rows[2] = {"a", "b"}

\* the call hit a failure: the guard rejected the text, get_db_connection
\* raised, or a query failed on every tier it has (eng: the engine before)
Failure(c, e, eng) ==
    LET acquire_raises == eng = None /\ e.conn # "none"
    IN  CASE c.tool = "query_sql" ->
                IF guard(c.sql) # "" THEN TRUE
                ELSE \/ acquire_raises
                     \/ e.connect_raises
                     \/ e.execute_raises
                     \/ e.cursor.iter_raises
          [] c.tool = "get_table_structure" -> acquire_raises \/ Exhausted(e)
          [] c.tool = "list_tables" ->
                acquire_raises \/ (Raises(e.rich, FALSE) /\ Raises(e.simple, FALSE))
          [] OTHER -> acquire_raises \/ e.info # "none"

\* the error value of the tool, with the request it answers
ErrorWithContext(c, r) ==
    CASE c.tool = "query_sql" -> DOMAIN r = {"error", "sql"} /\ r.sql = c.sql
      [] c.tool = "get_table_structure" ->
            /\ DOMAIN r = {"error", "table", "schema"}
            /\ r.table = c.table
            /\ r.schema = c.schema
      [] c.tool = "list_tables" -> DOMAIN r = {"error", "schema"} /\ r.schema = c.schema
      [] OTHER -> DOMAIN r = {"error"}

\* C9: a tool call that hits a failure returns a value with an error field
\* and the request's own context (sql; table and schema; schema); every
\* call ends with a returned value.
C9_FailuresReturnErrorValues ==
    [][(Idle /\ ~Idle')
         => /\ Failure(call', env', engine)
                => (IsError(result') /\ ErrorWithContext(call', result'))
            /\ IsError(result') => ErrorWithContext(call', result')]_vars

C9_Witness ==
    /\ call.tool = "list_tables"
    /\ call.schema = "ops"
    /\ env.rich.kind = "execute"
    /\ env.simple.kind = "connect"
    /\ result = [error |-> "cannot open connection", schema |-> "ops"]

SixFields == {"column_name", "data_type", "max_length", "precision", "scale", "is_nullable"}

\* what the rich columns tier returns when the driver treats it as it
\* treated the simplified one
RichColumnsFor(c, e) ==
    run_query(columns_sql(c.table, c.schema), e.simple, "column_name", FALSE, TRUE).rows

\* C10: when the rich columns query raised and the call succeeded, the
\* simplified query ran and every column of the table has the six fields with
\* the values of the rich tier, plus description "": the same keys as there.
C10_SimplifiedColumnsMatchRich ==
    (IsStructureCall /\ Raises(env.rich, TRUE) /\ ~IsError(result))
        => /\ \E i \in DOMAIN log.executed : log.executed[i] = "simple_columns_sql"
           /\ Len(result.columns) = Len(rich_columns_rows(call.table, call.schema))
           /\ \A i \in DOMAIN result.columns :
                 /\ DOMAIN result.columns[i] = SixFields \cup {"description"}
                 /\ DOMAIN result.columns[i] = DOMAIN RichColumnsFor(call, env)[i]
                 /\ \A k \in SixFields :
                       result.columns[i][k] = RichColumnsFor(call, env)[i][k]
                 /\ result.columns[i]["description"] = ""

C10_Witness ==
    /\ IsStructureCall
    /\ call.table = "Orders"
    /\ env.rich.kind = "execute"
    /\ ~IsError(result)
    /\ Len(result.columns) = 2
    /\ result.columns[1] =
          [column_name |-> "id", data_type |-> "int", max_length |-> "4",
           precision |-> "10", scale |-> "0", is_nullable |-> "False", description |-> ""]

----------------------------------------------------------------------------
(* Properties of the catalog tools, the connections and the guard's reasons *)

\* no table of that name is in the schema
NoSuchTable(table, schema) ==
    \A i \in DOMAIN rich_tables_rows(schema) : rich_tables_rows(schema)[i][1] # StrVal(table)

\* C11: get_table_structure for a table that is not in the schema, when the
\* engine is acquired and no query fails on every tier, returns the four
\* lists empty and no error.
C11_MissingTableAllEmpty ==
    [][(Idle /\ ~Idle' /\ call'.tool = "get_table_structure"
          /\ NoSuchTable(call'.table, call'.schema)
          /\ ~Failure(call', env', engine))
         => result' = [columns |-> <<>>, primary_keys |-> <<>>,
                       foreign_keys |-> <<>>, indexes |-> <<>>]]_vars

C11_Witness ==
    /\ IsStructureCall
    /\ NoSuchTable(call.table, call.schema)
    /\ env.rich.kind = "execute"
    /\ log.executed = <<"columns_sql", "simple_columns_sql", "pk_sql", "fk_sql", "index_sql">>
    /\ result = [columns |-> <<>>, primary_keys |-> <<>>,
                 foreign_keys |-> <<>>, indexes |-> <<>>]

\* C12: when a tool call has returned, with a result or with an error
\* value, every connection it checked out has been released.
C12_ConnectionsReleased ==
    ~Idle => log.closed = log.opened

C12_Witness ==
    /\ IsStructureCall
    /\ env.rich.kind = "fetch"
    /\ env.pk.kind = "execute"
    /\ IsError(result)
    /\ log.opened = 3
    /\ log.closed = 3

\* C13 as claimed: a text that does not begin with select and holds a
\* deny-listed keyword is rejected with the forbidden-keyword reason.
C13_ForbiddenReason ==
    (call.tool = "query_sql" /\ ~BeginsWithSelect(call.sql) /\ HasStandaloneKeyword(call.sql))
        => /\ IsError(result)
           /\ \E i \in DOMAIN dangerous_keywords :
                 result.error = ForbiddenMsg(dangerous_keywords[i])

\* C13 amended: such a text is rejected with the not-a-SELECT reason, its
\* sql echoed unchanged and nothing executed.
C13_NotSelectReason ==
    (call.tool = "query_sql" /\ ~BeginsWithSelect(call.sql) /\ HasStandaloneKeyword(call.sql))
        => /\ result = [error |-> NotSelectMsg, sql |-> call.sql]
           /\ log.executed = <<>>
           /\ log.acquire = 0

C13_Witness ==
    /\ call.tool = "query_sql"
    /\ call.sql = <<"DROP", " ", "x">>
    /\ result = [error |-> NotSelectMsg, sql |-> <<"DROP", " ", "x">>]

\* C15: once the engine is set, every later tool call, one after the other,
\* leaves it the same handle: no call builds a handle, runs the probe or
\* resets the engine, and no call's acquisition raises.
C15_HandleMemoized ==
    [][(engine # None)
         => /\ engine' = engine
            /\ made' = made
            /\ probed' = probed
            /\ \A i \in DOMAIN log'.executed : log'.executed[i] # "SELECT 1"
            /\ (IsError(result') /\ log'.acquire = 1)
                   => result'.error \notin {ConnectFailedMsg("bad url"), "no driver module",
                                            ConnectFailedMsg("login timeout"),
                                            ConnectFailedMsg("probe failed")}]_vars

C15_Witness ==
    /\ engine # None
    /\ engine \in probed
    /\ made = 1
    /\ call.tool = "get_database_info"
    /\ ~IsError(result)
    /\ log.acquire = 1
    /\ log.executed = <<"version_sql", "db_name_sql", "schema_sql">>

\* the list holds each row of the query once, in the query's order: its
\* key cell as text (or "" where the read of that cell raised)
OneEntryPerRow(list, rows, key) ==
    /\ Len(list) = Len(rows)
    /\ \A i \in DOMAIN list : list[i][key] \in {str(rows[i][1]), ""}

\* every entry is of the simplified tier: description synthesized as ""
AllSimplified(list) == \A i \in DOMAIN list : list[i]["description"] = ""

\* every entry is of the rich tier: description as the catalog holds it
\* (or "" where the read of that cell raised)
AllRich(list, rows, d) ==
    \A i \in DOMAIN list : list[i]["description"] \in {str(rows[i][d]), ""}

Sent(name) == \E i \in DOMAIN log.executed : log.executed[i] = name

\* C16: in get_table_structure and list_tables the simplified query is sent
\* only when the rich query or the iteration over its rows raised, and the
\* returned list then holds the rows of the simplified tier alone, each row
\* once; otherwise it holds the rows of the rich tier alone.
C16_OneTierOnly ==
    /\ IsStructureCall
          => /\ Sent("simple_columns_sql") => Raises(env.rich, TRUE)
             /\ ~IsError(result)
                   => /\ OneEntryPerRow(result.columns,
                                         rich_columns_rows(call.table, call.schema),
                                         "column_name")
                      /\ IF Raises(env.rich, TRUE)
                         THEN AllSimplified(result.columns)
                         ELSE AllRich(result.columns,
                                      rich_columns_rows(call.table, call.schema), 7)
    /\ call.tool = "list_tables"
          => /\ Sent("simple_sql") => Raises(env.rich, FALSE)
             /\ ~IsError(result)
                   => /\ OneEntryPerRow(result.tables, rich_tables_rows(call.schema),
                                         "table_name")
                      /\ IF Raises(env.rich, FALSE)
                         THEN AllSimplified(result.tables)
                         ELSE AllRich(result.tables, rich_tables_rows(call.schema), 2)

C16_Witness ==
    /\ IsStructureCall
    /\ call.table = "Orders"
    /\ env.rich = Fault("fetch", 1, 0)
    /\ env.simple = NoFault
    /\ ~IsError(result)
    /\ Len(result.columns) = 2
    /\ result.columns[1]["description"] = ""

----------------------------------------------------------------------------
(* list_tables called twice *)

\* which tier produced the listing
ServedBy(e) == IF Raises(e.rich, FALSE) THEN "simple" ELSE "rich"

\* no cell read raised while the listing was converted
CleanRead(e) == e.rich.kind # "cell" /\ e.simple.kind # "cell"

\* a second successful listing of the schema of the kept one
SecondListing ==
    /\ call.tool = "list_tables"
    /\ ~IsError(result)
    /\ prev # NoPrev
    /\ prev.schema = call.schema
    /\ CleanRead(env)
    /\ CleanRead(prev.env)

\* C14 as claimed: two listings of the same schema are identical in content,
\* order and count, whichever tier served each.
C14_ListingsIdentical ==
    SecondListing => result = prev.result

\* C14 amended: two listings of the same schema have the same count and the
\* same table names and schema names in the same order (that of ORDER BY
\* t.name); they are identical when the same tier served both, and differ
\* across tiers only in description, which the simplified tier leaves "".
C14_ListingsAgreeUpToDescription ==
    SecondListing
        => /\ result.count = prev.result.count
           /\ result.count = Len(result.tables)
           /\ Len(result.tables) = Len(prev.result.tables)
           /\ \A i \in DOMAIN result.tables :
                 /\ DOMAIN result.tables[i] = DOMAIN prev.result.tables[i]
                 /\ result.tables[i]["table_name"] = prev.result.tables[i]["table_name"]
                 /\ result.tables[i]["schema_name"] = prev.result.tables[i]["schema_name"]
                 /\ result.tables[i]["table_name"] = str(rich_tables_rows(call.schema)[i][1])
                 /\ ServedBy(env) = "simple" => result.tables[i]["description"] = ""
           /\ ServedBy(env) = ServedBy(prev.env) => result = prev.result

C14_Witness ==
    /\ SecondListing
    /\ call.schema = "dbo"
    /\ ServedBy(prev.env) = "rich"
    /\ ServedBy(env) = "simple"
    /\ result.count = 2
    /\ prev.result.tables[2]["description"] = "order header"
    /\ result.tables[2]["description"] = ""

====
